---- MODULE Spec2Model ----
(***************************************************************************)
(* Model of weather_api_mcp_server/handlers.py: the tool handlers of the   *)
(* weather MCP server.  One invocation of one handler is modelled from the *)
(* call to its return or raise; the provider's HTTP answers and the clock  *)
(* are the environment.                                                    *)
(***************************************************************************)
EXTENDS Integers, Sequences, FiniteSets, TLC

VARIABLES
    WEATHER_API_KEY, \* module global read from the environment at import
    clock,           \* what datetime.now() returns during the call (ticks)
    op,              \* the handler invoked
    args,            \* its arguments
    pc,              \* position of the invocation
    start_dt,        \* get_historical_weather locals
    end_dt,
    current_date,
    all_data,
    fetch_calls,     \* every call of fetch(endpoint, params) so far
    http_log,        \* every HTTP GET handed to the client so far
    fetch_rets,      \* what each completed call of fetch came to, in order
    result,          \* the returned value  (pc = "returned")
    error            \* the raised exception (pc = "raised")

vars == <<WEATHER_API_KEY, clock, op, args, pc, start_dt, end_dt, current_date,
          all_data, fetch_calls, http_log, fetch_rets, result, error>>

-----------------------------------------------------------------------------
(* Bounds of the model *)

\* resolution of the clock: instants per day (tick 0 of a day is midnight)
TicksPerDay == 2
\* longest date span (in days) given to get_historical_weather
MaxSpan == 3

-----------------------------------------------------------------------------
(* datetime: the proleptic Gregorian calendar of Python's datetime module *)

IsLeap(y) == (y % 4 = 0) /\ ((y % 100 # 0) \/ (y % 400 = 0))

DaysInMonth(y, m) ==
    IF m = 2 THEN (IF IsLeap(y) THEN 29 ELSE 28)
    ELSE IF m \in {4, 6, 9, 11} THEN 30 ELSE 31

\* number of days before January 1st of year y
DaysBeforeYear(y) ==
    LET p == y - 1 IN p * 365 + (p \div 4) - (p \div 100) + (p \div 400)

RECURSIVE DaysBeforeMonth(_, _)
DaysBeforeMonth(y, m) ==
    IF m = 1 THEN 0 ELSE DaysBeforeMonth(y, m - 1) + DaysInMonth(y, m - 1)

\* date(y, m, d).toordinal()
ToOrdinal(y, m, d) == DaysBeforeYear(y) + DaysBeforeMonth(y, m) + d

\* date.fromordinal(n) as [y, m, d]
FromOrdinal(n) ==
    LET y0 == (n * 400) \div 146097   \* 146097 days in 400 years
        y  == CHOOSE c \in y0 .. (y0 + 2) :
                  DaysBeforeYear(c) < n /\ n <= DaysBeforeYear(c + 1)
        r  == n - DaysBeforeYear(y)
        m  == CHOOSE c \in 1 .. 12 :
                  DaysBeforeMonth(y, c) < r
                  /\ r <= DaysBeforeMonth(y, c) + DaysInMonth(y, c)
    IN [y |-> y, m |-> m, d |-> r - DaysBeforeMonth(y, m)]

\* A date string.  fmt: the text matches the %Y-%m-%d pattern of strptime;
\* pad: month and day are written with two digits; y, m, d: the numbers read.
DateText(fmt, pad, y, m, d) == [fmt |-> fmt, pad |-> pad, y |-> y, m |-> m, d |-> d]

\* whether datetime.strptime(s, "%Y-%m-%d") returns (else it raises ValueError)
StrptimeOk(s) ==
    /\ s.fmt
    /\ s.y >= 1 /\ s.y <= 9999
    /\ s.m >= 1 /\ s.m <= 12
    /\ s.d >= 1 /\ s.d <= DaysInMonth(s.y, s.m)

\* datetime.strptime(s, "%Y-%m-%d"): midnight of that day, in ticks
Strptime(s) == ToOrdinal(s.y, s.m, s.d) * TicksPerDay

\* dt.strftime("%Y-%m-%d")
Strftime(dt) ==
    LET c == FromOrdinal(dt \div TicksPerDay)
    IN DateText(TRUE, TRUE, c.y, c.m, c.d)

\* timedelta(days=n)
Timedelta(n) == n * TicksPerDay

\* (a - b).days
DeltaDays(a, b) == (a - b) \div TicksPerDay

-----------------------------------------------------------------------------
(* Values *)

\* Python None
None == [isNone |-> TRUE, keys |-> {}, location |-> "", forecastday |-> <<>>]

\* a JSON object: the keys it has ("forecast.forecastday" is the key
\* "forecastday" of the object under "forecast") and the two values read
Dict(keys, location, forecastday) ==
    [isNone |-> FALSE, keys |-> keys, location |-> location,
     forecastday |-> forecastday]

FullKeys == {"location", "forecast", "forecast.forecastday"}

NoError == [type |-> "", msg |-> "", nums |-> <<>>]

\* raise ValueError(msg); nums are the numbers the message prints
ValueError(msg, nums) == [type |-> "ValueError", msg |-> msg, nums |-> nums]

\* what a call of fetch comes to: a returned value or a raised exception
Returned(v) == [raised |-> FALSE, value |-> v, error |-> NoError]
Raised(e)   == [raised |-> TRUE, value |-> None, error |-> e]

-----------------------------------------------------------------------------
(* Program constants *)

ForecastDaysMin == 1
ForecastDaysMax == 14
MsgDaysMin == 1
MsgDaysMax == 3
HistoryMaxAgeDays == 365
FutureMinDays == 14
FutureMaxDays == 300
HTTP_OK == 200

MsgQuery      == "query with location is required."
MsgDate       == "Invalid date. Use YYYY-MM-DD."
MsgDays       == "'days' must be between."
MsgOrder      == "start_date must be before end_date."
MsgTooOld     == "start_date cannot be more than 1 year ago."
MsgNotPast    == "end_date must be in the past."
MsgNoData     == "No historical data found for the specified date range."
MsgFutureMin  == "date must be at least N days in the future."
MsgFutureMax  == "date cannot be more than N days in the future."
MsgNoKey      == "Weather API key not set."
MsgRequest    == "Request error"
MsgUnexpected == "Unexpected error"

ValidationMsgs == {MsgQuery, MsgDate, MsgDays, MsgOrder, MsgTooOld, MsgNotPast,
                   MsgFutureMin, MsgFutureMax}

-----------------------------------------------------------------------------
(* The environment: what the provider may answer to one GET *)

Locations == {"London", "Londonderry"}

\* the JSON objects a 200 answer may carry for a request with these params
Payloads(params) ==
    LET fd == IF "dt" \in DOMAIN params THEN <<params.dt>> ELSE <<>>
    IN  {Dict(FullKeys, l, fd) : l \in Locations}
        \cup {Dict({"location"}, "London", <<>>),
              Dict({"forecast", "forecast.forecastday"}, "", fd)}

\* one outcome of client.get: a transport error, or a response with a status
\* and a body that parses as JSON (json) to `body` or does not
Outcomes(params) ==
    {[transport |-> TRUE, status |-> 0, json |-> FALSE, body |-> None],
     [transport |-> FALSE, status |-> 400, json |-> TRUE,
      body |-> Dict({"error"}, "", <<>>)],
     [transport |-> FALSE, status |-> HTTP_OK, json |-> FALSE, body |-> None]}
    \cup {[transport |-> FALSE, status |-> HTTP_OK, json |-> TRUE, body |-> b] :
             b \in Payloads(params)}

-----------------------------------------------------------------------------
(* validate_date and fetch *)

\* validate_date(dt_str): the error it raises, NoError when it returns
validate_date(dt_str) ==
    IF StrptimeOk(dt_str) THEN NoError ELSE ValueError(MsgDate, <<>>)

\* fetch, first statement: whether the key check lets the call through
fetch_key_ok == WEATHER_API_KEY # ""

\* fetch, from the GET's outcome on
fetch_response(o) ==
    IF o.transport THEN Raised(ValueError(MsgRequest, <<>>))
    ELSE LET data == IF o.json THEN o.body ELSE None
         IN  IF o.status # HTTP_OK
             \* the ValueError raised for a non-200 is caught by the
             \* `except Exception` below it and raised again, wrapped
             THEN Raised(ValueError(MsgUnexpected, <<>>))
             ELSE Returned(data)

\* the GET fetch sends: the caller's params plus the key
Request(endpoint, params) ==
    [endpoint |-> endpoint, params |-> params, key |-> WEATHER_API_KEY]

-----------------------------------------------------------------------------
(* Steps shared by the handlers *)

Locals == <<start_dt, end_dt, current_date, all_data>>
Call   == <<WEATHER_API_KEY, clock, op, args>>

YesNo(b) == IF b THEN "yes" ELSE "no"

\* `raise e` out of the handler
raise_(e) ==
    /\ pc' = "raised"
    /\ error' = e
    /\ UNCHANGED <<Call, Locals, fetch_calls, http_log, fetch_rets, result>>

\* `return await fetch(endpoint, params)`; items: the value is returned as
\* {"items": value}
return_fetch(endpoint, params, items) ==
    /\ fetch_calls' = Append(fetch_calls, [endpoint |-> endpoint, params |-> params])
    /\ IF ~fetch_key_ok
       THEN /\ http_log' = http_log
            /\ fetch_rets' = Append(fetch_rets, Raised(ValueError(MsgNoKey, <<>>)))
            /\ pc' = "raised"
            /\ error' = ValueError(MsgNoKey, <<>>)
            /\ result' = result
       ELSE \E o \in Outcomes(params) :
              LET r == fetch_response(o) IN
              /\ http_log' = Append(http_log, Request(endpoint, params))
              /\ fetch_rets' = Append(fetch_rets, r)
              /\ IF r.raised
                 THEN pc' = "raised" /\ error' = r.error /\ result' = result
                 ELSE /\ pc' = "returned"
                      /\ result' = IF items THEN [items |-> r.value] ELSE r.value
                      /\ error' = error
    /\ UNCHANGED <<Call, Locals>>

Invoked(name) == pc = "call" /\ op = name

-----------------------------------------------------------------------------
(* The single-call handlers *)

get_current_weather ==
    /\ Invoked("get_current_weather")
    /\ IF args.query = "" THEN raise_(ValueError(MsgQuery, <<>>))
       ELSE return_fetch("current.json",
                [q |-> args.query, aqi |-> YesNo(args.include_air_quality)], FALSE)

get_weather_forecast ==
    /\ Invoked("get_weather")
    /\ IF args.query = "" THEN raise_(ValueError(MsgQuery, <<>>))
       ELSE IF args.days < ForecastDaysMin \/ args.days > ForecastDaysMax
       THEN raise_(ValueError(MsgDays, <<MsgDaysMin, MsgDaysMax>>))
       ELSE return_fetch("forecast.json",
                [q |-> args.query, days |-> args.days,
                 aqi |-> YesNo(args.include_air_quality),
                 alerts |-> YesNo(args.include_alerts)], FALSE)

\* get_weather_history with the date checked only after the fetch
get_weather_history_fetch_first ==
    /\ Invoked("get_weather_history")
    /\ IF args.query = "" THEN raise_(ValueError(MsgQuery, <<>>))
       ELSE IF validate_date(args.date) # NoError
       THEN /\ fetch_calls' = Append(fetch_calls,
                   [endpoint |-> "history.json",
                    params |-> [q |-> args.query, dt |-> args.date]])
            /\ pc' = "raised"
            /\ error' = validate_date(args.date)
            /\ UNCHANGED <<Call, Locals, http_log, fetch_rets, result>>
       ELSE return_fetch("history.json", [q |-> args.query, dt |-> args.date], FALSE)

get_weather_history ==
    /\ Invoked("get_weather_history")
    /\ IF args.query = "" THEN raise_(ValueError(MsgQuery, <<>>))
       ELSE IF validate_date(args.date) # NoError THEN raise_(validate_date(args.date))
       ELSE return_fetch("history.json", [q |-> args.query, dt |-> args.date], FALSE)

get_weather_airquality ==
    /\ Invoked("get_weather_airquality")
    /\ IF args.query = "" THEN raise_(ValueError(MsgQuery, <<>>))
       ELSE return_fetch("current.json", [q |-> args.query, aqi |-> "yes"], FALSE)

get_astronomy_data ==
    /\ Invoked("get_astronomy_data")
    /\ IF args.query = "" THEN raise_(ValueError(MsgQuery, <<>>))
       ELSE IF validate_date(args.date) # NoError THEN raise_(validate_date(args.date))
       ELSE return_fetch("astronomy.json", [q |-> args.query, dt |-> args.date], FALSE)

search_locations ==
    /\ Invoked("search_locations")
    /\ IF args.query = "" THEN raise_(ValueError(MsgQuery, <<>>))
       ELSE return_fetch("search.json", [q |-> args.query], TRUE)

\* get_timezone wrapping its response the way search_locations does
get_timezone_items ==
    /\ Invoked("get_timezone")
    /\ IF args.query = "" THEN raise_(ValueError(MsgQuery, <<>>))
       ELSE return_fetch("timezone.json", [q |-> args.query], TRUE)

get_timezone ==
    /\ Invoked("get_timezone")
    /\ IF args.query = "" THEN raise_(ValueError(MsgQuery, <<>>))
       ELSE return_fetch("timezone.json", [q |-> args.query], FALSE)

get_sport_events ==
    /\ Invoked("get_sport_events")
    /\ IF args.query = "" THEN raise_(ValueError(MsgQuery, <<>>))
       ELSE return_fetch("sports.json", [q |-> args.query], FALSE)

get_marine_weather ==
    /\ Invoked("get_marine_weather")
    /\ IF args.query = "" THEN raise_(ValueError(MsgQuery, <<>>))
       ELSE return_fetch("marine.json",
                IF args.with_tide THEN [q |-> args.query, tide |-> "yes"]
                ELSE [q |-> args.query], FALSE)

\* the validation of get_future_weather: the error raised, NoError if none
future_validation(a, today) ==
    IF a.query = "" THEN ValueError(MsgQuery, <<>>)
    ELSE IF validate_date(a.date) # NoError THEN validate_date(a.date)
    ELSE LET target_dt == Strptime(a.date)
             days_diff == DeltaDays(target_dt, today)
         IN  IF days_diff < FutureMinDays
             THEN ValueError(MsgFutureMin, <<FutureMinDays>>)
             ELSE IF days_diff > FutureMaxDays
             THEN ValueError(MsgFutureMax, <<FutureMaxDays>>)
             ELSE NoError

get_future_weather ==
    /\ Invoked("get_future_weather")
    /\ IF future_validation(args, clock) # NoError
       THEN raise_(future_validation(args, clock))
       ELSE return_fetch("future.json", [q |-> args.query, dt |-> args.date], FALSE)

-----------------------------------------------------------------------------
(* get_historical_weather *)

\* the validation of get_historical_weather: the error raised, NoError if none
historical_validation(a, today) ==
    IF a.query = "" THEN ValueError(MsgQuery, <<>>)
    ELSE IF validate_date(a.start_date) # NoError THEN validate_date(a.start_date)
    ELSE IF validate_date(a.end_date) # NoError THEN validate_date(a.end_date)
    ELSE LET s == Strptime(a.start_date)
             e == Strptime(a.end_date)
             one_year_ago == today - Timedelta(HistoryMaxAgeDays)
         IN  IF s > e THEN ValueError(MsgOrder, <<>>)
             ELSE IF s < one_year_ago THEN ValueError(MsgTooOld, <<>>)
             ELSE IF e >= today THEN ValueError(MsgNotPast, <<>>)
             ELSE NoError

\* the call up to the first test of the loop
get_historical_weather ==
    /\ Invoked("get_historical_weather")
    /\ IF historical_validation(args, clock) # NoError
       THEN raise_(historical_validation(args, clock))
       ELSE /\ start_dt' = Strptime(args.start_date)
            /\ end_dt' = Strptime(args.end_date)
            /\ current_date' = Strptime(args.start_date)
            /\ all_data' = <<>>
            /\ pc' = "loop"
            /\ UNCHANGED <<Call, fetch_calls, http_log, fetch_rets, result, error>>

\* one pass of the loop up to the point where fetch awaits the GET; without
\* a key fetch raises at once, the handler swallows it and moves on
historical_fetch_day ==
    /\ pc = "loop"
    /\ current_date <= end_dt
    /\ LET params == [q |-> args.query, dt |-> Strftime(current_date)] IN
       /\ fetch_calls' = Append(fetch_calls,
                                [endpoint |-> "history.json", params |-> params])
       /\ IF ~fetch_key_ok
          THEN /\ fetch_rets' = Append(fetch_rets, Raised(ValueError(MsgNoKey, <<>>)))
               /\ current_date' = current_date + Timedelta(1)
               /\ UNCHANGED <<http_log, pc>>
          ELSE /\ http_log' = Append(http_log, Request("history.json", params))
               /\ pc' = "await"
               /\ UNCHANGED <<fetch_rets, current_date>>
    /\ UNCHANGED <<Call, start_dt, end_dt, all_data, result, error>>

\* the rest of the pass without the try/except: a failed day ends the call
historical_resume_day_abort ==
    /\ pc = "await"
    /\ \E o \in Outcomes(fetch_calls[Len(fetch_calls)].params) :
         LET r == fetch_response(o) IN
         /\ fetch_rets' = Append(fetch_rets, r)
         /\ IF r.raised
            THEN /\ pc' = "raised" /\ error' = r.error
                 /\ UNCHANGED <<all_data, current_date>>
            ELSE /\ all_data' = Append(all_data, r.value)
                 /\ current_date' = current_date + Timedelta(1)
                 /\ pc' = "loop" /\ error' = error
    /\ UNCHANGED <<Call, start_dt, end_dt, fetch_calls, http_log, result>>

\* the rest of the pass, once the GET has its outcome
historical_resume_day ==
    /\ pc = "await"
    /\ \E o \in Outcomes(fetch_calls[Len(fetch_calls)].params) :
         LET r == fetch_response(o) IN
         /\ fetch_rets' = Append(fetch_rets, r)
         /\ all_data' = IF r.raised THEN all_data ELSE Append(all_data, r.value)
    /\ current_date' = current_date + Timedelta(1)
    /\ pc' = "loop"
    /\ UNCHANGED <<Call, start_dt, end_dt, fetch_calls, http_log, result, error>>

TypeError == [type |-> "TypeError", msg |-> "", nums |-> <<>>]
KeyError  == [type |-> "KeyError", msg |-> "location", nums |-> <<>>]

\* the forecastday list built by the loop over all_data
RECURSIVE extend_forecastdays(_)
extend_forecastdays(datas) ==
    IF datas = <<>> THEN <<>>
    ELSE (IF {"forecast", "forecast.forecastday"} \subseteq Head(datas).keys
          THEN Head(datas).forecastday ELSE <<>>)
         \o extend_forecastdays(Tail(datas))

\* the statements after the loop without the test for an empty all_data
historical_merge_no_empty_test(datas) ==
    IF datas = <<>> THEN Returned(Dict(FullKeys, "", <<>>))
    ELSE IF datas[1].isNone THEN Raised(TypeError)
    ELSE IF "location" \notin datas[1].keys THEN Raised(KeyError)
    ELSE IF \E i \in 1 .. Len(datas) : datas[i].isNone THEN Raised(TypeError)
    ELSE Returned(Dict(FullKeys, datas[1].location, extend_forecastdays(datas)))

\* the statements after the loop: what the handler comes to
historical_merge(datas) ==
    IF datas = <<>> THEN Raised(ValueError(MsgNoData, <<>>))
    ELSE IF datas[1].isNone THEN Raised(TypeError)        \* None["location"]
    ELSE IF "location" \notin datas[1].keys THEN Raised(KeyError)
    ELSE IF \E i \in 1 .. Len(datas) : datas[i].isNone
         THEN Raised(TypeError)                           \* "forecast" in None
    ELSE Returned(Dict(FullKeys, datas[1].location, extend_forecastdays(datas)))

historical_finish ==
    /\ pc = "loop"
    /\ current_date > end_dt
    /\ LET r == historical_merge(all_data) IN
       IF r.raised
       THEN pc' = "raised" /\ error' = r.error /\ result' = result
       ELSE pc' = "returned" /\ result' = r.value /\ error' = error
    /\ UNCHANGED <<Call, Locals, fetch_calls, http_log, fetch_rets>>

-----------------------------------------------------------------------------
(* The invocations considered *)

Queries == {"", "Paris"}

WrongFormat == DateText(FALSE, TRUE, 2024, 2, 29)   \* "02-29-2024"
NonCalendar == DateText(TRUE, TRUE, 2024, 2, 30)    \* "2024-02-30"

\* the clock at the call: every instant of these days
ClockDays == {ToOrdinal(2025, 2, 28)}
Clocks == {d * TicksPerDay + t : d \in ClockDays, t \in 0 .. (TicksPerDay - 1)}

\* the date k days from the day of `now`, as text
DayText(now, k) == Strftime(((now \div TicksPerDay) + k) * TicksPerDay)
Unpadded(s) == DateText(s.fmt, FALSE, s.y, s.m, s.d)

DaysInputs == {0, 1, 3, 4, 14, 15}
FutureOffsets == {0, 13, 14, 15, 299, 300, 301}
StartOffsets == {-366, -365, -364, -2, -1, 0, 1}

DatePairs(now) ==
    {<<DayText(now, k), DayText(now, k + n - 1)>> :
        k \in StartOffsets, n \in 0 .. MaxSpan}
    \cup {<<WrongFormat, DayText(now, -1)>>, <<DayText(now, -1), NonCalendar>>,
          <<Unpadded(DayText(now, -2)), Unpadded(DayText(now, -1))>>}

Arguments(o, now) ==
    CASE o = "get_current_weather" ->
           [query : Queries, include_air_quality : BOOLEAN]
      [] o = "get_weather" ->
           [query : Queries, days : DaysInputs, include_air_quality : {FALSE},
            include_alerts : BOOLEAN]
      [] o \in {"get_weather_history", "get_astronomy_data"} ->
           [query : Queries,
            date : {DayText(now, -1), Unpadded(DayText(now, -1)),
                    WrongFormat, NonCalendar}]
      [] o = "get_marine_weather" -> [query : Queries, with_tide : BOOLEAN]
      [] o = "get_future_weather" ->
           [query : Queries,
            date : {DayText(now, k) : k \in FutureOffsets}
                   \cup {WrongFormat, NonCalendar}]
      [] o = "get_historical_weather" ->
           {[query |-> q, start_date |-> p[1], end_date |-> p[2]] :
               q \in Queries, p \in DatePairs(now)}
      [] OTHER -> [query : Queries]

Operations ==
    {"get_current_weather", "get_weather", "get_weather_history",
     "get_weather_airquality", "get_astronomy_data", "search_locations",
     "get_timezone", "get_sport_events", "get_historical_weather",
     "get_future_weather", "get_marine_weather"}

Init ==
    /\ WEATHER_API_KEY \in {"", "k3y"}
    /\ clock \in Clocks
    /\ op \in Operations
    /\ args \in Arguments(op, clock)
    /\ pc = "call"
    /\ start_dt = 0 /\ end_dt = 0 /\ current_date = 0
    /\ all_data = <<>>
    /\ fetch_calls = <<>> /\ http_log = <<>> /\ fetch_rets = <<>>
    /\ result = None
    /\ error = NoError

Next ==
    \/ get_current_weather
    \/ get_weather_forecast
    \/ get_weather_history
    \/ get_weather_airquality
    \/ get_astronomy_data
    \/ search_locations
    \/ get_timezone
    \/ get_sport_events
    \/ get_marine_weather
    \/ get_future_weather
    \/ get_historical_weather
    \/ historical_fetch_day
    \/ historical_resume_day
    \/ historical_finish

Spec == Init /\ [][Next]_vars

\* the event loop runs the invocation on and every GET comes to an outcome
LiveSpec == Spec /\ WF_vars(Next)

-----------------------------------------------------------------------------
(* Vocabulary of the properties *)

Done == pc \in {"returned", "raised"}

\* the invocation was turned down by its argument validation
Rejected == pc = "raised" /\ error.msg \in ValidationMsgs

\* the invocation got past its argument validation
Accepted == pc # "call" /\ ~Rejected

Historical == op = "get_historical_weather"

\* day number of a well-formed date text, and of the day of the call
Ord(s) == ToOrdinal(s.y, s.m, s.d)
Today == clock \div TicksPerDay

\* number of days of the requested span
SpanDays == Ord(args.end_date) - Ord(args.start_date) + 1

\* the calls of fetch that returned, in order
Successes == SelectSeq(fetch_rets, LAMBDA r : ~r.raised)

\* those of them that brought back a JSON object (not None)
ParsedSuccesses == SelectSeq(Successes, LAMBDA r : ~r.value.isNone)

\* the forecastday lists of a sequence of returned calls, end to end
RECURSIVE JoinForecastdays(_)
JoinForecastdays(rets) ==
    IF rets = <<>> THEN <<>>
    ELSE Head(rets).value.forecastday \o JoinForecastdays(Tail(rets))

\* a GET answered 200 with a body that is not JSON: fetch returns None
MalformedDay(i) == fetch_rets[i] = Returned(None)

-----------------------------------------------------------------------------
(* C1: once get_historical_weather has run over a validated range in which *)
(* at least one day's fetch brought back a JSON object (each such object    *)
(* carrying a location), it has returned (not raised); the result's         *)
(* location is that of the earliest such response and its forecastday list  *)
(* is the lists of those responses joined in order of date.                 *)
C1_AggregatesSuccessfulDays ==
    (Historical /\ Done /\ Accepted /\ ParsedSuccesses # <<>>
        /\ \A i \in 1 .. Len(ParsedSuccesses) :
              "location" \in ParsedSuccesses[i].value.keys)
    => /\ pc = "returned"
       /\ result.location = ParsedSuccesses[1].value.location
       /\ result.forecastday = JoinForecastdays(ParsedSuccesses)

(* C2: over a validated range get_historical_weather calls fetch on the    *)
(* history endpoint once per day of the span, the i-th call for the i-th    *)
(* day, never with two calls outstanding; when it ends, however the days    *)
(* went, it has made as many calls as the span has days; and it ends.       *)
C2_Calls ==
    (Historical /\ Accepted)
    => /\ Len(fetch_calls) <= SpanDays
       /\ \A i \in 1 .. Len(fetch_calls) :
            /\ fetch_calls[i].endpoint = "history.json"
            /\ fetch_calls[i].params.q = args.query
            /\ fetch_calls[i].params.dt.fmt /\ fetch_calls[i].params.dt.pad
            /\ Ord(fetch_calls[i].params.dt) = Ord(args.start_date) + i - 1
       /\ Len(fetch_calls) - Len(fetch_rets) = (IF pc = "await" THEN 1 ELSE 0)
       /\ Done => Len(fetch_rets) = SpanDays

C2_OneFetchPerDay == [](C2_Calls) /\ <>Done

C2_Witness ==
    /\ Historical /\ pc = "returned" /\ WEATHER_API_KEY # ""
    /\ Len(fetch_rets) = MaxSpan
    /\ fetch_rets[1].raised /\ ~fetch_rets[MaxSpan].raised

C4_MissingKeyIsConfigError ==
    (WEATHER_API_KEY = "" /\ Done /\ Accepted)
    => /\ pc = "raised" /\ error.msg = MsgNoKey
       /\ http_log = <<>>

(* C5: in get_historical_weather a day answered with a body that is not    *)
(* JSON counts as a failed day: the call still fetches every day and ends   *)
(* with the aggregation of the days that succeeded, or with the no-data     *)
(* error when none did.                                                     *)
C5_MalformedDaySwallowed ==
    (Historical /\ Done /\ Accepted
        /\ \E i \in 1 .. Len(fetch_rets) : MalformedDay(i))
    => LET good == ParsedSuccesses IN
       /\ Len(fetch_rets) = SpanDays
       /\ IF good = <<>>
          THEN pc = "raised" /\ error.msg = MsgNoData
          ELSE /\ pc = "returned"
               /\ result.forecastday = JoinForecastdays(good)

(* C6: an invocation that raises a validation error has made no call of    *)
(* fetch (and sent no GET).                                                 *)
C6_NoFetchBeforeValidationError ==
    Rejected => (fetch_calls = <<>> /\ http_log = <<>>)

C6_Witness ==
    /\ Historical /\ pc = "raised" /\ error.msg = MsgOrder
    /\ fetch_calls = <<>>

(* C7: get_historical_weather accepts well-formed dates exactly when       *)
(* start_date is not after end_date, start_date is at most 365 days before  *)
(* the day of the call and end_date is before the day of the call.          *)
C7_HistoricalWindow ==
    (Historical /\ pc # "call" /\ args.query # ""
        /\ StrptimeOk(args.start_date) /\ StrptimeOk(args.end_date))
    => (Accepted <=> /\ Ord(args.start_date) <= Ord(args.end_date)
                     /\ Today - Ord(args.start_date) <= HistoryMaxAgeDays
                     /\ Ord(args.end_date) < Today)

(* C8: get_future_weather accepts a well-formed date exactly when it is 14 *)
(* to 300 days after the day of the call, and then calls fetch once on the  *)
(* future endpoint.                                                         *)
C8_FutureWindow ==
    (op = "get_future_weather" /\ pc # "call" /\ args.query # ""
        /\ StrptimeOk(args.date))
    => /\ Accepted <=> /\ Ord(args.date) - Today >= FutureMinDays
                       /\ Ord(args.date) - Today <= FutureMaxDays
       /\ Accepted => /\ Len(fetch_calls) = 1
                      /\ fetch_calls[1].endpoint = "future.json"

(* C9: get_weather_forecast accepts days exactly within the bound it       *)
(* enforces, and the message of its rejection names that bound.             *)
C9_DaysMessageMatchesBound ==
    (op = "get_weather" /\ pc # "call" /\ args.query # "")
    => /\ Accepted <=> (args.days >= ForecastDaysMin /\ args.days <= ForecastDaysMax)
       /\ Rejected => error.nums = <<ForecastDaysMin, ForecastDaysMax>>

SingleCallOps ==
    {"get_current_weather", "get_weather", "get_weather_history",
     "get_weather_airquality", "get_astronomy_data", "search_locations",
     "get_timezone", "get_sport_events", "get_marine_weather"}

\* the invocation called fetch exactly once and passed its exception on
OneFetchErrorPropagated ==
    /\ Len(fetch_calls) = 1 /\ Len(fetch_rets) = 1
    /\ fetch_rets[1].raised <=> pc = "raised"
    /\ pc = "raised" => error = fetch_rets[1].error

(* C10 as stated: a single-call handler given valid arguments calls fetch  *)
(* once and returns what fetch returned, unchanged, or raises what fetch    *)
(* raised.                                                                  *)
C10_ReturnsResponseUnchanged ==
    (op \in SingleCallOps /\ Done /\ Accepted)
    => /\ OneFetchErrorPropagated
       /\ pc = "returned" => result = fetch_rets[1].value

(* C10 amended: the same, except that search_locations returns what fetch  *)
(* returned under the key "items" of a new object.                          *)
C10_ReturnsResponseOrItems ==
    (op \in SingleCallOps /\ Done /\ Accepted)
    => /\ OneFetchErrorPropagated
       /\ pc = "returned" =>
            result = IF op = "search_locations"
                     THEN [items |-> fetch_rets[1].value]
                     ELSE fetch_rets[1].value

C10_Witness ==
    /\ op = "search_locations" /\ pc = "returned"
    /\ fetch_rets[1].value \in Payloads(fetch_calls[1].params)
    /\ result = [items |-> fetch_rets[1].value]

====
